---------------------------- MODULE Spec2Model ----------------------------
(***************************************************************************)
(* A model of the bucketed time series of timeseries.go: IncreaseAtTime    *)
(* and Range running against a store that offers Incr, ZAdd, ZCount and    *)
(* Expire.  Instants and durations are counted in ticks, TicksPerSec ticks *)
(* to the second, so that instants and bucket widths below one second can  *)
(* be told apart from whole seconds.  Every call issues its store          *)
(* operations one at a time; other callers and the store's clock may act   *)
(* between any two of them.                                                *)
(***************************************************************************)
EXTENDS Integers, Sequences, FiniteSets

\* ------------------------------------------------------------------ bounds
TicksPerSec == 2
MaxT == 4
MaxNow == 2
MaxUnits == 2
MaxErrs == 1

Procs == {1, 2}
\* the instants callers pass: up to MaxT ticks where ranges are queried, up
\* to one second where calls only record
Instants == 0 .. MaxT
RecordInstants == 0 .. TicksPerSec
\* bucket widths: half a second, one second, two seconds
Widths == {TicksPerSec \div 2, TicksPerSec, 2 * TicksPerSec}
\* retention: below one second (0 whole seconds) and one second
\* a width of seven seconds: like a week, it does not divide the time
\* between the zero instant of time.Time and the Unix epoch
OddWidth == 7 * TicksPerSec
OddInstants == {0, 1, 3 * TicksPerSec}
TTLs == {TicksPerSec \div 2, TicksPerSec}

VARIABLES
    timestep,    \* ts.timestep, in ticks
    ttl,         \* ts.ttl, in ticks
    now,         \* the store's clock, in ticks
    counter,     \* the store's integer keys: key -> value
    series,      \* the store's sorted sets: key -> (member id -> score)
    deadline,    \* the store's expiries: key -> tick at which the key goes
    call,        \* per caller: the call in progress
    pc,          \* per caller: the next store operation of the call
    amount, t, i, id, err,                \* IncreaseAtTime's parameters and locals
    start, end, current, totalCount,      \* Range's parameters and locals
    total,       \* Range's first return value
    log,         \* per caller: the store operations the call has issued
    units,       \* history: the event units whose Incr and ZAdd both succeeded
    callers,     \* the callers at work
    faulty,      \* the store operations that may fail
    instants,    \* the instants callers pass
    budget,      \* history: event units that may still be asked for
    nerrs,       \* history: store operations that failed
    expiredEver, \* history: has any key expired or been deleted
    calm         \* per caller: since the call began no key expired and no other caller added a member

storeVars == <<counter, series, deadline>>
recVars == <<amount, t, i, id>>
rngVars == <<start, end, current, totalCount, total>>
cfgVars == <<timestep, ttl, callers, faulty, instants>>
vars == <<timestep, ttl, now, counter, series, deadline, call, pc, amount, t, i, id,
          err, start, end, current, totalCount, total, log, units, callers, faulty, instants,
          budget, nerrs,
          expiredEver, calm>>

\* ------------------------------------------------------------------ errors
Nil == "nil"
ErrBadRange == "timeseries: range is invalid"
ErrIncr == "incr failed"
ErrZAdd == "zadd failed"
ErrZCount == "zcount failed"

\* ------------------------------------------------------------------ time
\* t.Unix(): whole seconds since the Unix epoch, rounded down.
Unix(x) == x \div TicksPerSec

\* The Unix epoch counted from time.Time's zero instant, modulo d ticks:
\* 719162 days of 86400 seconds.
EpochMod(d) == ((719162 % d) * ((86400 * TicksPerSec) % d)) % d

\* t.Truncate(d): t rounded down to a multiple of d since the zero instant;
\* t itself when d <= 0.
Truncate(x, d) == IF d <= 0 THEN x ELSE x - (((x % d) + EpochMod(d)) % d)

\* (variant: the ttl rounded to the nearest second)
TTLNearest == (ttl + TicksPerSec \div 2) \div TicksPerSec

\* int(ts.ttl.Seconds())
TTLSeconds == ttl \div TicksPerSec

counterKey == "counter"
seriesKey == "ts"

\* (variant: the key is made from the instant as it is)
makeKeyExact(prefix, x) == <<prefix, Unix(x)>>

\* ts.makeKey(prefix, t): "<prefix>:<Unix seconds of the truncated instant>"
makeKey(prefix, x) == <<prefix, Unix(Truncate(x, timestep))>>

\* ------------------------------------------------------------------ the store
\* (the Redis interface; each operation either fails, changing nothing, or
\* succeeds with the effect below)
Put(f, k, v) == [x \in (DOMAIN f) \cup {k} |-> IF x = k THEN v ELSE f[x]]
Drop(f, K) == [x \in (DOMAIN f) \ K |-> f[x]]

Exists(key) == key \in (DOMAIN counter) \cup (DOMAIN series)

\* Incr(key): the value after the increment; an absent key counts from 0.
IncrValue(key) == IF key \in DOMAIN counter THEN counter[key] + 1 ELSE 1

\* ZAdd(key, score, member): the set at key with member at score; an
\* existing member is re-scored.
ZAddValue(key, score, member) ==
    Put(IF key \in DOMAIN series THEN series[key] ELSE <<>>, member, score)

\* ZCount(key, lo, hi): members with lo <= score <= hi; 0 for an absent key.
ZCount(key, lo, hi) ==
    IF key \in DOMAIN series
    THEN Cardinality({m \in DOMAIN series[key] :
                        lo <= series[key][m] /\ series[key][m] <= hi})
    ELSE 0

\* Expire(key, seconds): the keys deleted at once (seconds <= 0 on a key
\* that exists).
ExpireDeletes(key, seconds) == IF Exists(key) /\ seconds <= 0 THEN {key} ELSE {}

\* Expire(key, seconds): the expiries after the call.
ExpireDeadline(key, seconds) ==
    IF ~Exists(key) THEN deadline
    ELSE IF seconds <= 0 THEN Drop(deadline, {key})
    ELSE Put(deadline, key, now + seconds * TicksPerSec)

\* history: the units of the keys K are gone with their series set
Forget(K) == [n \in DOMAIN units |->
                IF units[n].key \in K THEN [units[n] EXCEPT !.live = FALSE]
                ELSE units[n]]

\* history: one store operation of a call, with its two arguments, its
\* outcome and the clock reading of the store when it was served
Entry(op, key, a, b, ok) ==
    [op |-> op, key |-> key, a |-> a, b |-> b, ok |-> ok, at |-> now]

\* a store operation that may fail does so while the failure budget lasts
Outcomes(op) == IF op \in faulty /\ nerrs < MaxErrs THEN {TRUE, FALSE} ELSE {TRUE}

\* ------------------------------------------------------------------ the code's decisions
\* (variant: the range is also refused when start equals end)
BadRangeOrEmpty(s, e) == s >= e

\* start.After(end)
BadRange(s, e) == s > e

\* (variant: the loop also stops at the bucket that begins at end)
PastOrAtEnd(c, e) == c >= e

\* current.After(end): the loop of Range stops
PastEnd(c, e) == c > e

\* (variant: the score keeps the instant's full resolution)
ScoreExact(x) == x

\* float64(t.Unix()): the score of a unit's member
Score(x) == Unix(x)

\* (variant: the member is named by the unit's place in the call)
MemberByIndex(p) == i[p] + 1

\* fmt.Sprintf("%s:%d", ts.name, id): the member of caller p's unit, named
\* by the id its Incr returned
Member(p) == id[p]

\* (variant: the error of the Incr is not looked at)
IncrNoAbort(e) == FALSE

\* if err != nil { return err } after the Incr and its Expire
IncrAbort(e) == e /= Nil

\* (variant: the error of the ZAdd is not looked at)
ZAddNoAbort(e) == FALSE

\* if err != nil { return err } after the ZAdd
ZAddAbort(e) == e /= Nil

\* (variant: err = ts.redis.Expire(...), the result of Expire becomes the call's error)
ExpireErrKept(e, expireOk) == IF expireOk THEN Nil ELSE "expire failed"

\* ts.redis.Expire(...): its result is dropped, the call's error stays e
AfterExpire(e, expireOk) == e

\* (variant: the partial sum is returned with the error)
RangeErrPartial(tc) == tc

\* return 0.0, err
RangeErrTotal(tc) == 0

\* (variant: a query refreshes the expiry of the series key it reads)
QueryRefreshes(key) == ExpireDeadline(key, TTLSeconds)

\* one turn of the loop of Range issues the ZCount and no Expire: the
\* expiries after it
AfterQuery(key) == deadline

\* ------------------------------------------------------------------ initial state
Idle == [p \in Procs |-> 0]

StartWith(who, faults, when, widths) ==
    /\ callers = who
    /\ faulty = faults
    /\ instants = when
    /\ timestep \in widths
    /\ ttl \in TTLs
    /\ now = 0
    /\ counter = <<>>
    /\ series = <<>>
    /\ deadline = <<>>
    /\ call = [p \in Procs |-> "none"]
    /\ pc = [p \in Procs |-> "idle"]
    /\ amount = Idle /\ t = Idle /\ i = Idle /\ id = Idle
    /\ err = [p \in Procs |-> Nil]
    /\ start = Idle /\ end = Idle /\ current = Idle /\ totalCount = Idle
    /\ total = Idle
    /\ log = [p \in Procs |-> <<>>]
    /\ units = <<>>
    /\ budget = MaxUnits
    /\ nerrs = 0
    /\ expiredEver = FALSE
    /\ calm = [p \in Procs |-> TRUE]

Start(who, faults, when) == StartWith(who, faults, when, Widths)

\* ------------------------------------------------------------------ IncreaseAtTime
\* the call begins: for i := 0; i < amount
IncreaseAtTime(p, n, at) ==
    /\ pc[p] = "idle"
    /\ n <= budget
    /\ budget' = budget - n
    /\ call' = [call EXCEPT ![p] = "IncreaseAtTime"]
    /\ amount' = [amount EXCEPT ![p] = n]
    /\ t' = [t EXCEPT ![p] = at]
    /\ i' = [i EXCEPT ![p] = 0]
    /\ id' = [id EXCEPT ![p] = 0]
    /\ err' = [err EXCEPT ![p] = Nil]
    /\ log' = [log EXCEPT ![p] = <<>>]
    /\ calm' = [calm EXCEPT ![p] = TRUE]
    /\ pc' = [pc EXCEPT ![p] = IF 0 < n THEN "Incr" ELSE "done"]
    /\ UNCHANGED <<cfgVars, now, storeVars, rngVars, units, nerrs, expiredEver>>

\* id, err := ts.redis.Incr(counterKey)
DoIncr(p) ==
    /\ pc[p] = "Incr"
    /\ \E ok \in Outcomes("Incr") :
        LET key == makeKey(counterKey, t[p]) IN
        /\ counter' = IF ok THEN Put(counter, key, IncrValue(key)) ELSE counter
        /\ id' = [id EXCEPT ![p] = IF ok THEN IncrValue(key) ELSE 0]
        /\ err' = [err EXCEPT ![p] = IF ok THEN Nil ELSE ErrIncr]
        /\ nerrs' = IF ok THEN nerrs ELSE nerrs + 1
        /\ log' = [log EXCEPT ![p] = Append(@, Entry("Incr", key, 0, IF ok THEN IncrValue(key) ELSE 0, ok))]
    /\ pc' = [pc EXCEPT ![p] = "ExpireCounter"]
    /\ UNCHANGED <<cfgVars, now, series, deadline, call, amount, t, i, rngVars,
                   units, budget, expiredEver, calm>>

\* ts.redis.Expire(counterKey, int(ts.ttl.Seconds())); if err != nil { return err }
DoExpireCounter(p) ==
    /\ pc[p] = "ExpireCounter"
    /\ \E ok \in Outcomes("Expire") :
        LET key == makeKey(counterKey, t[p])
            gone == IF ok THEN ExpireDeletes(key, TTLSeconds) ELSE {}
            e == AfterExpire(err[p], ok)
        IN
        /\ counter' = Drop(counter, gone)
        /\ deadline' = IF ok THEN ExpireDeadline(key, TTLSeconds) ELSE deadline
        /\ expiredEver' = (expiredEver \/ gone /= {})
        /\ calm' = IF gone /= {} THEN [q \in Procs |-> FALSE] ELSE calm
        /\ nerrs' = IF ok THEN nerrs ELSE nerrs + 1
        /\ log' = [log EXCEPT ![p] = Append(@, Entry("Expire", key, TTLSeconds, 0, ok))]
        /\ err' = [err EXCEPT ![p] = e]
        /\ pc' = [pc EXCEPT ![p] = IF IncrAbort(e) THEN "done" ELSE "ZAdd"]
    /\ UNCHANGED <<cfgVars, now, series, call, recVars, rngVars, units, budget>>

\* err = ts.redis.ZAdd(seriesKey, float64(t.Unix()), "<name>:<id>"); if err != nil { return err }
DoZAdd(p) ==
    /\ pc[p] = "ZAdd"
    /\ \E ok \in Outcomes("ZAdd") :
        LET key == makeKey(seriesKey, t[p])
            e == IF ok THEN Nil ELSE ErrZAdd
        IN
        /\ series' = IF ok THEN Put(series, key, ZAddValue(key, Score(t[p]), Member(p)))
                     ELSE series
        /\ units' = IF ok
                    THEN Append(units, [t |-> t[p], key |-> key, id |-> Member(p),
                                        by |-> p, live |-> TRUE])
                    ELSE units
        /\ calm' = IF ok THEN [q \in Procs |-> calm[q] /\ q = p] ELSE calm
        /\ nerrs' = IF ok THEN nerrs ELSE nerrs + 1
        /\ log' = [log EXCEPT ![p] =
                     Append(@, Entry("ZAdd", key, Score(t[p]), Member(p), ok))]
        /\ err' = [err EXCEPT ![p] = e]
        /\ pc' = [pc EXCEPT ![p] = IF ZAddAbort(e) THEN "done" ELSE "ExpireSeries"]
    /\ UNCHANGED <<cfgVars, now, counter, deadline, call, recVars, rngVars, budget,
                   expiredEver>>

\* ts.redis.Expire(seriesKey, int(ts.ttl.Seconds())); i++; i < amount; return nil
DoExpireSeries(p) ==
    /\ pc[p] = "ExpireSeries"
    /\ \E ok \in Outcomes("Expire") :
        LET key == makeKey(seriesKey, t[p])
            gone == IF ok THEN ExpireDeletes(key, TTLSeconds) ELSE {}
        IN
        /\ series' = Drop(series, gone)
        /\ deadline' = IF ok THEN ExpireDeadline(key, TTLSeconds) ELSE deadline
        /\ units' = Forget(gone)
        /\ expiredEver' = (expiredEver \/ gone /= {})
        /\ calm' = IF gone /= {} THEN [q \in Procs |-> FALSE] ELSE calm
        /\ nerrs' = IF ok THEN nerrs ELSE nerrs + 1
        /\ log' = [log EXCEPT ![p] = Append(@, Entry("Expire", key, TTLSeconds, 0, ok))]
    /\ i' = [i EXCEPT ![p] = @ + 1]
    /\ pc' = [pc EXCEPT ![p] = IF i[p] + 1 < amount[p] THEN "Incr" ELSE "done"]
    /\ UNCHANGED <<cfgVars, now, counter, call, amount, t, id, err, rngVars, budget>>

\* ------------------------------------------------------------------ Range
\* the call begins: if start.After(end) { return 0, ErrBadRange };
\* totalCount := 0; current := start.Truncate(ts.timestep)
Range(p, s, e) ==
    /\ pc[p] = "idle"
    /\ call' = [call EXCEPT ![p] = "Range"]
    /\ start' = [start EXCEPT ![p] = s]
    /\ end' = [end EXCEPT ![p] = e]
    /\ log' = [log EXCEPT ![p] = <<>>]
    /\ calm' = [calm EXCEPT ![p] = TRUE]
    /\ totalCount' = [totalCount EXCEPT ![p] = 0]
    /\ total' = [total EXCEPT ![p] = 0]
    /\ IF BadRange(s, e)
       THEN /\ err' = [err EXCEPT ![p] = ErrBadRange]
            /\ pc' = [pc EXCEPT ![p] = "done"]
            /\ UNCHANGED current
       ELSE /\ err' = [err EXCEPT ![p] = Nil]
            /\ current' = [current EXCEPT ![p] = Truncate(s, timestep)]
            /\ pc' = [pc EXCEPT ![p] = "ZCount"]
    /\ UNCHANGED <<cfgVars, now, storeVars, recVars, units, budget, nerrs, expiredEver>>

\* count, err := ts.redis.ZCount(seriesKey, start.Unix(), end.Unix()); one
\* turn of the loop
DoZCount(p) ==
    /\ pc[p] = "ZCount"
    /\ \E ok \in Outcomes("ZCount") :
        LET key == makeKey(seriesKey, current[p])
            lo == Unix(start[p])
            hi == Unix(end[p])
            count == ZCount(key, lo, hi)
            next == current[p] + timestep
        IN
        /\ log' = [log EXCEPT ![p] = Append(@, Entry("ZCount", key, lo, hi, ok))]
        /\ deadline' = AfterQuery(key)
        /\ nerrs' = IF ok THEN nerrs ELSE nerrs + 1
        /\ IF ~ok
           THEN /\ err' = [err EXCEPT ![p] = ErrZCount]
                /\ total' = [total EXCEPT ![p] = RangeErrTotal(totalCount[p])]
                /\ pc' = [pc EXCEPT ![p] = "done"]
                /\ UNCHANGED <<totalCount, current>>
           ELSE /\ totalCount' = [totalCount EXCEPT ![p] = @ + count]
                /\ current' = [current EXCEPT ![p] = next]
                /\ IF PastEnd(next, end[p])
                   THEN /\ total' = [total EXCEPT ![p] = totalCount[p] + count]
                        /\ pc' = [pc EXCEPT ![p] = "done"]
                   ELSE /\ pc' = pc
                        /\ total' = total
                /\ err' = err
    /\ UNCHANGED <<cfgVars, now, counter, series, call, recVars, start, end, units,
                   budget, expiredEver, calm>>

\* the caller has its result and is free for the next call
Return(p) ==
    /\ pc[p] = "done"
    /\ pc' = [pc EXCEPT ![p] = "idle"]
    /\ call' = [call EXCEPT ![p] = "none"]
    /\ amount' = [amount EXCEPT ![p] = 0]
    /\ t' = [t EXCEPT ![p] = 0]
    /\ i' = [i EXCEPT ![p] = 0]
    /\ id' = [id EXCEPT ![p] = 0]
    /\ err' = [err EXCEPT ![p] = Nil]
    /\ start' = [start EXCEPT ![p] = 0]
    /\ end' = [end EXCEPT ![p] = 0]
    /\ current' = [current EXCEPT ![p] = 0]
    /\ totalCount' = [totalCount EXCEPT ![p] = 0]
    /\ total' = [total EXCEPT ![p] = 0]
    /\ log' = [log EXCEPT ![p] = <<>>]
    /\ calm' = [calm EXCEPT ![p] = TRUE]
    /\ UNCHANGED <<cfgVars, now, storeVars, units, budget, nerrs, expiredEver>>

\* ------------------------------------------------------------------ the store's clock
\* A tick passes; the store deletes the keys whose deadline has come.
Tick ==
    /\ now < MaxNow
    /\ now' = now + 1
    /\ LET gone == {k \in DOMAIN deadline : deadline[k] <= now + 1} IN
        /\ counter' = Drop(counter, gone)
        /\ series' = Drop(series, gone)
        /\ deadline' = Drop(deadline, gone)
        /\ units' = Forget(gone)
        /\ expiredEver' = (expiredEver \/ gone /= {})
        /\ calm' = IF gone /= {} THEN [q \in Procs |-> FALSE] ELSE calm
    /\ UNCHANGED <<cfgVars, call, pc, recVars, err, rngVars, log, budget, nerrs>>

\* ------------------------------------------------------------------ specifications
\* the steps of IncreaseAtTime calls
Record ==
    \/ \E p \in callers, n \in 0 .. MaxUnits, at \in instants : IncreaseAtTime(p, n, at)
    \/ \E p \in callers : DoIncr(p)
    \/ \E p \in callers : DoExpireCounter(p)
    \/ \E p \in callers : DoZAdd(p)
    \/ \E p \in callers : DoExpireSeries(p)
    \/ \E p \in callers : Return(p)

\* the steps of Range calls
Query ==
    \/ \E p \in callers, s \in instants, e \in instants : Range(p, s, e)
    \/ \E p \in callers : DoZCount(p)

\* One caller records while the clock runs and any store operation it
\* issues may fail.
Init == Start({1}, {"Incr", "Expire", "ZAdd"}, RecordInstants)
Next == Record \/ Tick
Spec == Init /\ [][Next]_vars

\* One caller records and queries; a query's ZCount may fail.
InitRange == Start({1}, {"ZCount"}, Instants)
NextRange == Record \/ Query
SpecRange == InitRange /\ [][NextRange]_vars

\* Two callers record concurrently against a store that does not fail.
InitConc == Start(Procs, {}, RecordInstants)
NextConc == Record
SpecConc == InitConc /\ [][NextConc]_vars

\* One caller records and queries while the clock runs; a query's ZCount
\* may fail.
InitExpiry == Start({1}, {"ZCount"}, RecordInstants)
NextExpiry == Record \/ Query \/ Tick
SpecExpiry == InitExpiry /\ [][NextExpiry]_vars

\* One caller records and queries, with the seven-second width among the
\* widths; any store operation may fail.
InitWidths == StartWith({1}, {"Incr", "Expire", "ZAdd", "ZCount"}, OddInstants,
                        Widths \cup {OddWidth})
NextWidths == Record \/ Query
SpecWidths == InitWidths /\ [][NextWidths]_vars

\* ------------------------------------------------------------------ properties
WholeSec(x) == x % TicksPerSec = 0

\* the recorded units with instant in [lo, hi] / in [lo, hi)
RecordedIn(lo, hi) == {n \in DOMAIN units : lo <= units[n].t /\ units[n].t <= hi}
RecordedBefore(lo, hi) == {n \in DOMAIN units : lo <= units[n].t /\ units[n].t < hi}
RecordedAt(x) == {n \in DOMAIN units : units[n].t = x}

RangeDone(p) == call[p] = "Range" /\ pc[p] = "done"
RecordDone(p) == call[p] = "IncreaseAtTime" /\ pc[p] = "done"

\* a Range that returned no error, over whole seconds, on a store whose
\* bucket width and recorded instants are whole seconds and that lost no key
WholeSecondRange(p) ==
    /\ RangeDone(p) /\ err[p] = Nil
    /\ ~expiredEver
    /\ WholeSec(timestep) /\ WholeSec(start[p]) /\ WholeSec(end[p])
    /\ \A n \in DOMAIN units : WholeSec(units[n].t)

C2_RangeHalfOpen ==
    \A p \in Procs :
        WholeSecondRange(p) => total[p] = Cardinality(RecordedBefore(start[p], end[p]))

\* a Range(t, t) that returned no error on a store that lost no key
PointRange(p) ==
    /\ RangeDone(p) /\ err[p] = Nil
    /\ ~expiredEver
    /\ start[p] = end[p]

C4_BadRange ==
    \A p \in Procs :
        RangeDone(p) =>
            /\ start[p] > end[p] =>
                    total[p] = 0 /\ err[p] = ErrBadRange /\ log[p] = <<>>
            /\ start[p] <= end[p] => err[p] /= ErrBadRange

\* C4's case: a reversed range on a store that holds a unit inside it
C4_Witness ==
    \E p \in Procs :
        /\ RangeDone(p) /\ start[p] > end[p]
        /\ RecordedIn(end[p], start[p]) /= {}
        /\ err[p] = ErrBadRange

\* the operations op of caller p's call that failed
FailedAt(p, op) == {k \in DOMAIN log[p] : log[p][k].op = op /\ ~log[p][k].ok}

\* C10: a Range one of whose ZCount queries failed returns total 0 with
\* that error, whatever the earlier buckets counted, and the failed query
\* is the last one it issued.
C10_RangeErrorNoPartialSum ==
    \A p \in Procs :
        (RangeDone(p) /\ FailedAt(p, "ZCount") /= {}) =>
            /\ total[p] = 0
            /\ err[p] = ErrZCount
            /\ FailedAt(p, "ZCount") = {Len(log[p])}

\* C10's case: the failed query came after a bucket that counted a unit
\* and before a bucket still to be queried
C10_Witness ==
    \E p \in Procs :
        /\ RangeDone(p) /\ FailedAt(p, "ZCount") /= {}
        /\ totalCount[p] > 0
        /\ Len(log[p]) >= 2
        /\ current[p] + timestep <= end[p]

\* the entries of caller p's log for operation op that succeeded
OkAt(p, op) == {k \in DOMAIN log[p] : log[p][k].op = op /\ log[p][k].ok}
OpsAt(p, op) == {k \in DOMAIN log[p] : log[p][k].op = op}
OpsOn(p, op, key) == {k \in OpsAt(p, op) : log[p][k].key = key}

\* the member a ZAdd entry of the log added is in its series set, at its score
Held(e) ==
    /\ e.key \in DOMAIN series
    /\ e.b \in DOMAIN series[e.key]
    /\ series[e.key][e.b] = e.a

\* C5: on a run without store errors, every unit whose Incr and ZAdd
\* succeeded and whose series key has not expired since is held by exactly
\* one member of its bucket's series set, with the unit's Unix second as
\* score, and by no member that another such unit holds: no later
\* recording overwrites or re-scores it.
C5_OneMemberPerUnit ==
    nerrs = 0 =>
        \A n \in DOMAIN units :
            units[n].live =>
                /\ units[n].key \in DOMAIN series
                /\ units[n].id \in DOMAIN series[units[n].key]
                /\ series[units[n].key][units[n].id] = Unix(units[n].t)
                /\ \A m \in DOMAIN units :
                        (m /= n /\ units[m].live /\ units[m].key = units[n].key)
                            => units[m].id /= units[n].id

\* C6: with callers recording concurrently, no store error and no expiry,
\* no two units of a bucket have the same counter value, and once every
\* call has returned each series set holds one member per unit recorded
\* into it, all the amounts asked for together.
C6_ConcurrentUnitsDistinct ==
    ~expiredEver =>
        /\ \A n \in DOMAIN units : \A m \in DOMAIN units :
                (m /= n /\ units[m].key = units[n].key) => units[m].id /= units[n].id
        /\ (\A p \in Procs : pc[p] \in {"idle", "done"}) =>
                /\ Len(units) = MaxUnits - budget
                /\ \A n \in DOMAIN units :
                        Cardinality(DOMAIN series[units[n].key]) =
                            Cardinality({m \in DOMAIN units : units[m].key = units[n].key})

\* C6's case: two calls that ran at the same time on one bucket have both
\* returned, the unit with the later counter value added first
C6_Witness ==
    /\ ~expiredEver
    /\ \A p \in Procs : RecordDone(p) /\ amount[p] >= 1
    /\ makeKey(seriesKey, t[1]) = makeKey(seriesKey, t[2])
    /\ Len(units) = amount[1] + amount[2]
    /\ units[1].id = 2

\* C7: an IncreaseAtTime whose Incr failed on unit j returns that error;
\* no ZAdd follows the failed Incr, so the call has issued j - 1 ZAdds, all
\* before it; and the members of the j - 1 earlier units are still in the
\* series set, visible to ZCount, when the call returns (as long as no key
\* expired meanwhile).
C7_IncrFailureNoRollback ==
    \A p \in Procs :
        (RecordDone(p) /\ FailedAt(p, "Incr") /= {}) =>
            /\ err[p] = ErrIncr
            /\ i[p] + 1 <= amount[p]
            /\ Cardinality(OpsAt(p, "ZAdd")) = i[p]
            /\ Cardinality(OpsAt(p, "ZAdd")) <= amount[p] - 1
            /\ \A f \in FailedAt(p, "Incr") : \A k \in OpsAt(p, "ZAdd") : k < f
            /\ calm[p] =>
                    /\ \A k \in OpsAt(p, "ZAdd") : Held(log[p][k])
                    /\ ZCount(makeKey(seriesKey, t[p]), Unix(t[p]), Unix(t[p])) >= i[p]

\* C7's case: the Incr of the second unit failed after the first unit was
\* recorded
C7_Witness ==
    \E p \in Procs :
        /\ RecordDone(p) /\ FailedAt(p, "Incr") /= {}
        /\ i[p] = 1 /\ calm[p]
        /\ Cardinality(OkAt(p, "ZAdd")) = 1

\* C8: an IncreaseAtTime whose ZAdd failed returns that error at once: the
\* failed ZAdd is the last operation of the call (no Expire of the series
\* key for the unit, no later unit); the counter keeps the value the unit's
\* Incr gave it and the series set has no member for it (on a store that
\* lost no key).
C8_ZAddFailure ==
    \A p \in Procs :
        (RecordDone(p) /\ FailedAt(p, "ZAdd") /= {}) =>
            /\ err[p] = ErrZAdd
            /\ FailedAt(p, "ZAdd") = {Len(log[p])}
            /\ Cardinality(OpsAt(p, "Incr")) = i[p] + 1
            /\ Cardinality(OpsOn(p, "Expire", makeKey(seriesKey, t[p]))) = i[p]
            /\ Cardinality(OkAt(p, "ZAdd")) = i[p]
            /\ ~expiredEver =>
                    /\ counter[makeKey(counterKey, t[p])] = id[p]
                    /\ makeKey(seriesKey, t[p]) \in DOMAIN series =>
                            id[p] \notin DOMAIN series[makeKey(seriesKey, t[p])]
                    /\ ZCount(makeKey(seriesKey, t[p]), Unix(t[p]), Unix(t[p]))
                         = Cardinality({n \in DOMAIN units :
                                          /\ units[n].key = makeKey(seriesKey, t[p])
                                          /\ Unix(units[n].t) = Unix(t[p])})

\* C8's case: the ZAdd of the second unit failed after the first unit was
\* recorded
C8_Witness ==
    \E p \in Procs :
        /\ RecordDone(p) /\ FailedAt(p, "ZAdd") /= {}
        /\ i[p] = 1 /\ ~expiredEver
        /\ id[p] = 2

\* C9: IncreaseAtTime returns no error exactly when every Incr and every
\* ZAdd of the call succeeded, whatever its Expire calls did, and then it
\* has recorded all `amount` units.
C9_ExpireErrorsSwallowed ==
    \A p \in Procs :
        RecordDone(p) =>
            /\ err[p] = Nil <=> (FailedAt(p, "Incr") = {} /\ FailedAt(p, "ZAdd") = {})
            /\ err[p] = Nil =>
                    /\ Cardinality(OkAt(p, "Incr")) = amount[p]
                    /\ Cardinality(OkAt(p, "ZAdd")) = amount[p]

\* C9's case: a call of two units returned no error although one of its
\* Expire calls failed
C9_Witness ==
    \E p \in Procs :
        /\ RecordDone(p) /\ err[p] = Nil
        /\ amount[p] = 2
        /\ FailedAt(p, "Expire") /= {}

\* C12: when the Incr of an IncreaseAtTime fails, the failed Incr is the
\* last store operation the call issues: no Expire and no ZAdd follow it.
C12_IncrFailureIsLastOperation ==
    \A p \in Procs :
        (RecordDone(p) /\ FailedAt(p, "Incr") /= {}) =>
            FailedAt(p, "Incr") = {Len(log[p])}

\* no IncreaseAtTime call is in progress
NoRecordInProgress == \A p \in Procs : call[p] = "IncreaseAtTime" => pc[p] = "done"

\* C13: whenever no IncreaseAtTime call is in progress, whichever store
\* operations failed before (the Expire calls, whose errors are dropped,
\* among them), every counter key and every series key of the store
\* carries an expiry.
C13_EveryKeyCarriesExpiry ==
    NoRecordInProgress =>
        \A key \in (DOMAIN counter) \cup (DOMAIN series) : key \in DOMAIN deadline

\* the retention in ticks: the whole seconds of ttl
Retention == (ttl \div TicksPerSec) * TicksPerSec

\* the recorded units a query of [lo, hi] can still find in the store
Findable(lo, hi) ==
    {n \in DOMAIN units : /\ units[n].live
                          /\ Unix(lo) <= Unix(units[n].t)
                          /\ Unix(units[n].t) <= Unix(hi)}

\* key lives until the retention after the clock reading at, and is gone
\* from then on
Retained(key, at) ==
    IF now < at + Retention
    THEN Exists(key) /\ key \in DOMAIN deadline /\ deadline[key] = at + Retention
    ELSE ~Exists(key) /\ key \notin DOMAIN deadline

\* the place in caller p's log of the last unit's Incr / Expire(counter) /
\* ZAdd / Expire(series), once all the units of the call are done
LastIncr(p) == Len(log[p]) - 3
LastExpireCounter(p) == Len(log[p]) - 2
LastZAdd(p) == Len(log[p]) - 1
LastExpireSeries(p) == Len(log[p])

\* caller p's call has recorded all its units, one at least, without error
Written(p) ==
    /\ RecordDone(p) /\ amount[p] >= 1 /\ err[p] = Nil
    /\ Len(log[p]) = 4 * amount[p]
    /\ FailedAt(p, "Expire") = {}

KeptOrLost(p, w, x) ==
    /\ log[p][x].op = "Expire"
    /\ log[p][x].key = log[p][w].key
    /\ \/ Retained(log[p][x].key, log[p][x].at)
       \/ /\ log[p][w].at < log[p][x].at
          /\ ~Exists(log[p][x].key)
          /\ log[p][x].key \notin DOMAIN deadline

C11_Postponed ==
    \E p \in Procs :
        /\ Written(p) /\ ttl >= TicksPerSec /\ Len(units) > amount[p]
        /\ log[p][LastExpireCounter(p)].at >= 1
        /\ Retained(log[p][LastExpireCounter(p)].key, log[p][LastExpireCounter(p)].at)
        /\ Retained(log[p][LastExpireSeries(p)].key, log[p][LastExpireSeries(p)].at)
        /\ now < log[p][LastExpireCounter(p)].at + Retention

\* the sum of the ZCounts on [s, e] over the series keys of the buckets from
\* c on, as the store stands
RECURSIVE SumFrom(_, _, _)
SumFrom(c, s, e) ==
    IF c > e THEN 0
    ELSE ZCount(<<seriesKey, Unix(Truncate(c, timestep))>>, Unix(s), Unix(e))
            + SumFrom(c + timestep, s, e)

\* caller p takes a step of a Range call
RangeStep(p) == call'[p] = "Range" /\ (pc'[p] /= pc[p] \/ log'[p] /= log[p])

\* C17: Range is read-only: every step of a Range call, whatever the call's
\* outcome, leaves every counter, every series set and every expiry
\* deadline as they were and issues ZCount operations only; so the total of
\* an error-free Range during which nothing was written and nothing
\* expired is a function of its arguments and of the store (two such calls
\* in a row return the same total).
C17_RangeReadOnly ==
    /\ [][\A p \in Procs :
            RangeStep(p) =>
                /\ counter' = counter /\ series' = series /\ deadline' = deadline
                /\ \A k \in 1 .. Len(log'[p]) : log'[p][k].op = "ZCount"]_vars
    /\ [](\A p \in Procs :
            (RangeDone(p) /\ err[p] = Nil /\ calm[p]) =>
                total[p] = SumFrom(Truncate(start[p], timestep), start[p], end[p]))

\* an error-free Range has read two buckets of a store that holds units
\* and deadlines
C17_Witness ==
    \E p \in Procs :
        /\ RangeDone(p) /\ err[p] = Nil /\ calm[p]
        /\ Len(log[p]) >= 2 /\ total[p] >= 1
        /\ \E k \in 1 .. Len(log[p]) : log[p][k].key \in DOMAIN deadline

\* floor(x / width) * width, counted from the Unix epoch
Floor(x) == (x \div timestep) * timestep

\* caller p's log is amount[p] units on the keys of bucket, each unit an
\* Incr, the Expire of the counter key, the ZAdd of the member named by
\* the id that Incr returned at the score of t, the Expire of the series key
UnitsInOrder(p, bucket) ==
    LET ck == <<counterKey, Unix(bucket)>>
        sk == <<seriesKey, Unix(bucket)>>
        seconds == ttl \div TicksPerSec
    IN
    /\ Len(log[p]) = 4 * amount[p]
    /\ \A u \in 0 .. amount[p] - 1 :
        /\ log[p][4 * u + 1].op = "Incr" /\ log[p][4 * u + 1].key = ck
        /\ log[p][4 * u + 1].ok /\ log[p][4 * u + 1].b >= 1
        /\ log[p][4 * u + 2].op = "Expire" /\ log[p][4 * u + 2].key = ck
        /\ log[p][4 * u + 2].a = seconds
        /\ log[p][4 * u + 3].op = "ZAdd" /\ log[p][4 * u + 3].key = sk
        /\ log[p][4 * u + 3].ok
        /\ log[p][4 * u + 3].a = t[p] \div TicksPerSec
        /\ log[p][4 * u + 3].b = log[p][4 * u + 1].b
        /\ log[p][4 * u + 4].op = "Expire" /\ log[p][4 * u + 4].key = sk
        /\ log[p][4 * u + 4].a = seconds

\* C14, as stated: an error-free IncreaseAtTime(amount, t) issues amount
\* units in order, all on the two keys of the bucket floor(t / width) * width.
C14_AsStated ==
    \A p \in Procs :
        (RecordDone(p) /\ err[p] = Nil) => UnitsInOrder(p, Floor(t[p]))

\* C14: an error-free IncreaseAtTime(amount, t) issues exactly amount Incr
\* and amount ZAdd, all on the counter key and the series key of the bucket
\* t.Truncate(width) (t rounded down to a multiple of the width counted from
\* the zero instant of time.Time) and on no other key, each unit in the
\* order Incr, Expire of the counter key, ZAdd (member named by the id its
\* Incr returned, score t in Unix seconds), Expire of the series key; with
\* amount = 0 it issues no store operation and returns no error.
C14_UnitsInOrder ==
    \A p \in Procs :
        /\ (RecordDone(p) /\ err[p] = Nil) => UnitsInOrder(p, Truncate(t[p], timestep))
        /\ (RecordDone(p) /\ amount[p] = 0) => (err[p] = Nil /\ log[p] = <<>>)

\* a call has recorded a unit with the seven-second width, after an
\* earlier unit in the same bucket
C14_Witness ==
    \E p \in Procs :
        /\ RecordDone(p) /\ err[p] = Nil /\ amount[p] = 1
        /\ timestep = OddWidth
        /\ Len(log[p]) = 4
        /\ log[p][1].b = 2
        /\ Len(units) = 2

\* caller p's log is one ZCount on [start.Unix(), end.Unix()] for each
\* bucket from first through last, in ascending order
QueriesInOrder(p, first, last) ==
    /\ Len(log[p]) = (last - first) \div timestep + 1
    /\ \A k \in 1 .. Len(log[p]) :
        /\ log[p][k].op = "ZCount" /\ log[p][k].ok
        /\ log[p][k].key = <<seriesKey, Unix(first + (k - 1) * timestep)>>
        /\ log[p][k].a = start[p] \div TicksPerSec
        /\ log[p][k].b = end[p] \div TicksPerSec

\* C15, as stated: an error-free Range issues floor(end / width) -
\* floor(start / width) + 1 ZCount, one per bucket from floor(start / width)
\* * width through floor(end / width) * width.
C15_AsStated ==
    \A p \in Procs :
        (RangeDone(p) /\ err[p] = Nil) =>
            QueriesInOrder(p, Floor(start[p]), Floor(end[p]))

\* C15: for every width > 0 and every start <= end, an error-free Range
\* ends after exactly (end.Truncate(width) - start.Truncate(width)) / width
\* + 1 ZCount: one per bucket, in ascending order from the bucket of start
\* through the bucket of end (buckets counted from the zero instant of
\* time.Time), each with the bounds [start.Unix(), end.Unix()].
C15_QueriesInOrder ==
    \A p \in Procs :
        (RangeDone(p) /\ err[p] = Nil) =>
            /\ start[p] <= end[p]
            /\ QueriesInOrder(p, Truncate(start[p], timestep), Truncate(end[p], timestep))

\* a Range with the seven-second width has crossed a bucket boundary that
\* is no multiple of seven Unix seconds
C15_Witness ==
    \E p \in Procs :
        /\ RangeDone(p) /\ err[p] = Nil
        /\ timestep = OddWidth
        /\ Floor(start[p]) = Floor(end[p])
        /\ Len(log[p]) = 2

\* C16: the buckets that one error-free Range visits derive distinct series
\* keys, none is queried twice, and the total counts no recorded unit more
\* than once.
C16_NoKeyTwice ==
    \A p \in Procs :
        (RangeDone(p) /\ err[p] = Nil /\ calm[p]) =>
            /\ \A j, k \in 1 .. Len(log[p]) : j /= k => log[p][j].key /= log[p][k].key
            /\ total[p] <= Cardinality(Findable(start[p], end[p]))

=============================================================================
